---- MODULE Spec2Model ----
(***************************************************************************)
(* Path end-snippet uniqueness of raphodo/utilities.py:                    *)
(* make_path_end_snippets_unique, _recursive_identify_depth and            *)
(* _collect_duplicates.  A path is a sequence of one-character strings,    *)
(* so that os.path.basename, slicing, str.split and str.join are modelled  *)
(* by what they do to the characters.                                      *)
(***************************************************************************)
EXTENDS Integers, Sequences, FiniteSets, TLC

VARIABLES
    paths,    \* the argument list of the call under study
    status,   \* "called", then "returned" or "raised"
    result,   \* the list the call returned
    calls,    \* concurrent calls: each thread's frame (arguments, locals, position)
    depths,   \* the depths dict of each frame (one frame outside concurrent calls)
    input,    \* the arguments and the readings of a call of one of the other functions
    fs,       \* the file system: the entry (kind, content) at each path that exists
    log,      \* the records handed to logging (level, message), in order
    have_logged_os_release   \* the module's global of that name

vars == <<paths, status, result, calls, depths, input, fs, log, have_logged_os_release>>

\* what the path functions neither read nor write
worldVars == <<input, fs, log, have_logged_os_release>>

(* ------------------------------ bounds --------------------------------- *)
MaxPaths == 3
MaxMixedPaths == 2
MaxSegs == 2
NumCalls == 2
RecursionLimit == 8

(* --------------------------- strings ----------------------------------- *)
\* os.sep on the POSIX platforms the program runs on
Sep == "/"

Max(a, b) == IF a >= b THEN a ELSE b

\* p.find(sep) + 1: the first separator taken for the last
MutLastSepFirst(p) ==
    IF \E i \in 1..Len(p) : p[i] = Sep
    THEN CHOOSE i \in 1..Len(p) : p[i] = Sep /\ \A j \in 1..(i-1) : p[j] # Sep
    ELSE 0

\* p.rfind(sep) + 1, as posixpath.basename computes it (0 when there is no sep)
LastSep(p) ==
    IF \E i \in 1..Len(p) : p[i] = Sep
    THEN CHOOSE i \in 1..Len(p) : p[i] = Sep /\ \A j \in (i+1)..Len(p) : p[j] # Sep
    ELSE 0

\* os.path.basename(path)
Basename(p) == SubSeq(p, LastSep(p) + 1, Len(p))

\* path[:-(chop - 1)]: the separator before the base name is left in place
MutChopEndKeepSep(p, chop) ==
    IF chop - 1 >= Len(p) \/ chop = 1 THEN <<>> ELSE SubSeq(p, 1, Len(p) - (chop - 1))

\* path[:-chop] for chop >= 1
ChopEnd(p, chop) == IF chop >= Len(p) THEN <<>> ELSE SubSeq(p, 1, Len(p) - chop)

\* path.split(os.sep)
RECURSIVE Split(_)
Split(p) ==
    IF \E i \in 1..Len(p) : p[i] = Sep
    THEN LET i == CHOOSE k \in 1..Len(p) : p[k] = Sep /\ \A j \in 1..(k-1) : p[j] # Sep
         IN  <<SubSeq(p, 1, i - 1)>> \o Split(SubSeq(p, i + 1, Len(p)))
    ELSE <<p>>

\* os.sep.join(dirs)
RECURSIVE Join(_)
Join(dirs) ==
    IF Len(dirs) = 0 THEN <<>>
    ELSE IF Len(dirs) = 1 THEN dirs[1]
    ELSE dirs[1] \o <<Sep>> \o Join(Tail(dirs))

\* [os.path.basename(path) for path in paths]
Basenames(ps) == [i \in 1..Len(ps) |-> Basename(ps[i])]

\* len(basenames) != len(set(basenames))
HasDuplicates(bs) == Cardinality({bs[i] : i \in 1..Len(bs)}) # Len(bs)

(* ------------------------ _collect_duplicates -------------------------- *)
\* the dict the function returns, as the sequence of its items in insertion
\* order: one record per base name that occurs more than once
CollectDuplicates(bs, ps) ==
    LET idx == [i \in 1..Len(bs) |-> i]
        firsts == SelectSeq(idx, LAMBDA i : \A j \in 1..(i-1) : bs[j] # bs[i])
        members(b) == SelectSeq(idx, LAMBDA i : bs[i] = b)
        item(i) == [basename |-> bs[i],
                    paths |-> [k \in 1..Len(members(bs[i])) |-> ps[members(bs[i])[k]]]]
        items == [k \in 1..Len(firsts) |-> item(firsts[k])]
    IN  SelectSeq(items, LAMBDA it : Len(it.paths) > 1)

\* basename in duplicates
InDuplicates(b, dups) == \E k \in 1..Len(dups) : dups[k].basename = b

\* duplicates[basename]
DuplicatesAt(b, dups) == dups[CHOOSE k \in 1..Len(dups) : dups[k].basename = b].paths

(* --------------------- _recursive_identify_depth ----------------------- *)
\* the value standing for a RecursionError raised out of the recursion
Raised == -1

RECURSIVE RecursiveIdentifyDepth(_, _, _), DepthLoop(_, _, _, _)

\* the loop taken to resolve every still-colliding group one level up
MutDepthLoopOneLevel(dups, k, depth, fuel) ==
    IF k > Len(dups) THEN depth ELSE depth + 1

\* the loop of lines 775-778 from its k-th item on: depth is the loop's own
\* running variable, passed on (plus one) to the next recursive call
DepthLoop(dups, k, depth, fuel) ==
    IF k > Len(dups) THEN depth
    ELSE LET chop == Len(dups[k].basename) + 1
             chopped == [i \in 1..Len(dups[k].paths) |-> ChopEnd(dups[k].paths[i], chop)]
             r == RecursiveIdentifyDepth(chopped, depth + 1, fuel - 1)
         IN  IF r = Raised THEN Raised
             ELSE DepthLoop(dups, k + 1, Max(depth, r), fuel)

\* fuel is the number of frames left before the interpreter raises
RecursiveIdentifyDepth(ps, depth, fuel) ==
    IF fuel = 0 THEN Raised
    ELSE LET bs == Basenames(ps)
         IN  IF HasDuplicates(bs)
             THEN DepthLoop(CollectDuplicates(bs, ps), 1, depth, fuel)
             ELSE depth

(* -------------------- make_path_end_snippets_unique -------------------- *)
RECURSIVE DepthValues(_)

\* one depth for the whole call: the deepest of all duplicate groups
MutDepthValuesGlobal(dups) ==
    LET ds == {RecursiveIdentifyDepth(dups[k].paths, 0, RecursionLimit) : k \in 1..Len(dups)}
        deepest == IF Raised \in ds THEN Raised ELSE CHOOSE d \in ds : \A e \in ds : e <= d
    IN  [k \in 1..Len(dups) |-> deepest]

\* the values the loop of lines 833-837 assigns, listed in the order of the
\* items of duplicates: depths[basename] is assigned once per path of the
\* group, every time with the same arguments
DepthValues(dups) ==
    IF dups = <<>> THEN <<>>
    ELSE <<RecursiveIdentifyDepth(Head(dups).paths, 0, RecursionLimit)>>
             \o DepthValues(Tail(dups))

\* the dict depths after that loop
DepthsDict(dups, values) ==
    [b \in {dups[k].basename : k \in 1..Len(dups)} |->
        values[CHOOSE k \in 1..Len(dups) : dups[k].basename = b]]

\* depths[basename] as a defaultdict(int) reads it
DictGet(d, b) == IF b \in DOMAIN d THEN d[b] ELSE 0

\* the commented-out line 847 restored: name = '...' + name
MutSnippetNameEllipsis(path, basename, depth) ==
    IF depth # 0
    THEN LET dirs == Split(path)
             index == Len(dirs) - depth - 1
             name == Join(SubSeq(dirs, Max(index, 0) + 1, Len(dirs)))
         IN  IF index > 1 THEN <<".", ".", ".">> \o name
             ELSE IF index = 1 THEN <<Sep>> \o name
             ELSE name
    ELSE basename

\* dirs[index:] without max(index, 0): a negative index counts from the end
MutSnippetNameNoClamp(path, basename, depth) ==
    IF depth # 0
    THEN LET dirs == Split(path)
             index == Len(dirs) - depth - 1
             from == IF index < 0 THEN Max(Len(dirs) + index, 0) ELSE index
             name == Join(SubSeq(dirs, from + 1, Len(dirs)))
         IN  IF index > 1 THEN name
             ELSE IF index = 1 THEN <<Sep>> \o name
             ELSE name
    ELSE basename

\* the separator prefixed whenever index >= 1
MutSnippetNameAlwaysSep(path, basename, depth) ==
    IF depth # 0
    THEN LET dirs == Split(path)
             index == Len(dirs) - depth - 1
             name == Join(SubSeq(dirs, Max(index, 0) + 1, Len(dirs)))
         IN  IF index >= 1 THEN <<Sep>> \o name ELSE name
    ELSE basename

\* the elif of lines 848-849 left out: no separator at index 1
MutSnippetNameNeverSep(path, basename, depth) ==
    IF depth # 0
    THEN LET dirs == Split(path)
             index == Len(dirs) - depth - 1
         IN  Join(SubSeq(dirs, Max(index, 0) + 1, Len(dirs)))
    ELSE basename

\* a path the depth consumes whole falls back to its base name, not to the
\* full path
MutSnippetNameBasenameFallback(path, basename, depth) ==
    IF depth # 0
    THEN LET dirs == Split(path)
             index == Len(dirs) - depth - 1
             name == Join(SubSeq(dirs, Max(index, 0) + 1, Len(dirs)))
         IN  IF index > 1 THEN name
             ELSE IF index = 1 THEN <<Sep>> \o name
             ELSE basename
    ELSE basename

\* the body of the loop of lines 839-852 for one path
SnippetName(path, basename, depth) ==
    IF depth # 0
    THEN LET dirs == Split(path)
             index == Len(dirs) - depth - 1
             name == Join(SubSeq(dirs, Max(index, 0) + 1, Len(dirs)))
         IN  IF index > 1 THEN name
             ELSE IF index = 1 THEN <<Sep>> \o name
             ELSE name
    ELSE basename

\* the whole call: the list returned and the depths dict it was built from,
\* or raised = TRUE for a RecursionError
MakePathEndSnippetsUnique(ps) ==
    LET bs == Basenames(ps)
    IN  IF HasDuplicates(bs)
        THEN LET dups == CollectDuplicates(bs, ps)
                 values == DepthValues(dups)
                 dict == DepthsDict(dups, values)
             IN  IF \E k \in 1..Len(values) : values[k] = Raised
                 THEN [raised |-> TRUE, names |-> <<>>, depths |-> <<>>]
                 ELSE [raised |-> FALSE,
                       names |-> [i \in 1..Len(ps) |->
                                    SnippetName(ps[i], bs[i], DictGet(dict, bs[i]))],
                       depths |-> dict]
        ELSE [raised |-> FALSE, names |-> bs, depths |-> <<>>]

(* ----------------------------- inputs ---------------------------------- *)
\* directory and file names of different lengths
Names == {<<"a">>, <<"b", "c">>}

SegLists == UNION {[1..n -> Names] : n \in 1..MaxSegs}

\* well-formed paths: no empty segment, no trailing separator
AbsPaths == {<<Sep>> \o Join(s) : s \in SegLists}
RelPaths == {Join(s) : s \in SegLists}

Distinct(s) == \A i, j \in 1..Len(s) : i # j => s[i] # s[j]

\* the argument lists of at most n pairwise-distinct paths of a pool
Inputs(pool, n) == UNION {{s \in [1..k -> pool] : Distinct(s)} : k \in 0..n}

\* the paths p0..p6 of the function's doctest
home == <<"h", "o", "m", "e">>
damon == <<"d", "a", "m", "o", "n">>
media == <<"m", "e", "d", "i", "a">>
photos == <<"p", "h", "o", "t", "o", "s">>
videos == <<"v", "i", "d", "e", "o", "s">>
backup1 == <<"b", "a", "c", "k", "u", "p", "1">>
backup2 == <<"b", "a", "c", "k", "u", "p", "2">>
drive1 == <<"d", "r", "i", "v", "e", "1">>
P0 == <<Sep>> \o Join(<<home, damon, photos>>)
P1 == <<Sep>> \o Join(<<media, damon, backup1, photos>>)
P2 == <<Sep>> \o Join(<<media, damon, backup2, photos>>)
P3 == <<Sep>> \o Join(<<home, damon, videos>>)
P4 == <<Sep>> \o Join(<<media, damon, backup1, videos>>)
P5 == <<Sep>> \o Join(<<media, damon, backup2, videos>>)
P6 == <<Sep>> \o Join(<<media, damon, drive1, home, damon, photos>>)
DoctestPaths == <<P0, P1, P2, P3, P4, P5, P6>>

\* the argument lists that select paths of a list, in the list's order
Selections(ps) ==
    {LET idx == SelectSeq([i \in 1..Len(ps) |-> i], LAMBDA i : i \in S)
     IN  [k \in 1..Len(idx) |-> ps[idx[k]]] : S \in SUBSET (1..Len(ps))}

\* the doctest's calls s0..s5 and every other selection of p0..p6
DoctestInputs == Selections(DoctestPaths)

\* paths deeper than the pool's: a tree under /z whose directories a and bc
\* both hold a/a and bc/a, two relative paths, a path of another name and
\* a short path
DeepPaths ==
    <<<<"/", "z", "/", "a", "/", "a", "/", "a">>,
      <<"/", "z", "/", "b", "c", "/", "a", "/", "a">>,
      <<"/", "z", "/", "a", "/", "b", "c", "/", "a">>,
      <<"/", "z", "/", "b", "c", "/", "b", "c", "/", "a">>,
      <<"b", "c", "/", "a", "/", "a">>,
      <<"a">>,
      <<"/", "z", "/", "a", "/", "b", "c">>,
      <<"/", "z", "/", "a">>>>

DeepInputs == Selections(DeepPaths)

(* --------------------------- state machine ----------------------------- *)
\* a call's argument list: absolute paths, absolute and relative paths mixed,
\* paths of the doctest, or deeper paths
Init ==
    /\ paths \in Inputs(AbsPaths, MaxPaths)
                 \cup Inputs(AbsPaths \cup RelPaths, MaxMixedPaths)
                 \cup DoctestInputs
                 \cup DeepInputs
    /\ status = "called"
    /\ result = <<>>
    /\ calls = <<>>
    /\ depths = <<>>
    /\ input = <<>>
    /\ fs = <<>>
    /\ log = <<>>
    /\ have_logged_os_release = FALSE

\* make_path_end_snippets_unique(*paths) runs to its return or to the
\* RecursionError that leaves it
Call ==
    /\ status = "called"
    /\ LET r == MakePathEndSnippetsUnique(paths)
       IN  /\ status' = IF r.raised THEN "raised" ELSE "returned"
           /\ result' = r.names
           /\ depths' = <<r.depths>>
    /\ UNCHANGED <<paths, calls>>
    /\ UNCHANGED worldVars

Next == Call

Spec == Init /\ [][Next]_vars

(* ------------------------- concurrent calls ---------------------------- *)
\* threads that each make one call, interleaved between the statements of
\* make_path_end_snippets_unique
Threads == 1..NumCalls

\* the arguments of the concurrent calls: the doctest's s0 and s1, and two
\* 'photos' paths that resolve three levels up
ConcInputs == {<<P0, P3>>, <<P0, P1, P2>>, <<P0, P6>>}

\* a frame on entry: the arguments bound, no local assigned yet
Frame(a) ==
    [args |-> a, pc |-> "start", basenames |-> <<>>, duplicates |-> <<>>,
     names |-> <<>>, pos |-> 0, ret |-> <<>>]

\* every frame's depths dict is one for all calls
MutDepthsOwnerShared(t) == 1

\* depths is a local of the call, created at line 830: each frame owns its own
DepthsOwner(t) == t

InitConc ==
    /\ paths = <<>>
    /\ status = "idle"
    /\ result = <<>>
    /\ calls \in [Threads -> {Frame(a) : a \in ConcInputs}]
    /\ depths = [t \in Threads |-> <<>>]
    /\ input = <<>>
    /\ fs = <<>>
    /\ log = <<>>
    /\ have_logged_os_release = FALSE

\* lines 826-828 and 855: the base names, and the early return
Start(t) ==
    /\ calls[t].pc = "start"
    /\ LET bs == Basenames(calls[t].args)
       IN  calls' = [calls EXCEPT ![t] =
                IF HasDuplicates(bs)
                THEN [@ EXCEPT !.basenames = bs, !.pc = "collect"]
                ELSE [@ EXCEPT !.basenames = bs, !.ret = bs, !.pc = "done"]]
    /\ UNCHANGED <<paths, status, result, depths>>
    /\ UNCHANGED worldVars

\* lines 829-831: names, depths and duplicates are created
Collect(t) ==
    /\ calls[t].pc = "collect"
    /\ calls' = [calls EXCEPT ![t] =
            [@ EXCEPT !.names = <<>>,
                      !.duplicates = CollectDuplicates(calls[t].basenames, calls[t].args),
                      !.pos = 1,
                      !.pc = "depths"]]
    /\ depths' = [depths EXCEPT ![DepthsOwner(t)] = <<>>]
    /\ UNCHANGED <<paths, status, result>>
    /\ UNCHANGED worldVars

\* lines 833-837: one iteration of the first loop, or its exit
DepthStep(t) ==
    /\ calls[t].pc = "depths"
    /\ LET f == calls[t]
           b == f.basenames[f.pos]
           d == RecursiveIdentifyDepth(DuplicatesAt(b, f.duplicates), 0, RecursionLimit)
       IN  IF f.pos > Len(f.args)
           THEN /\ calls' = [calls EXCEPT ![t] = [@ EXCEPT !.pos = 1, !.pc = "names"]]
                /\ UNCHANGED depths
           ELSE IF ~InDuplicates(b, f.duplicates)
           THEN /\ calls' = [calls EXCEPT ![t] = [@ EXCEPT !.pos = @ + 1]]
                /\ UNCHANGED depths
           ELSE IF d = Raised
           THEN /\ calls' = [calls EXCEPT ![t] = [@ EXCEPT !.pc = "raised"]]
                /\ UNCHANGED depths
           ELSE /\ calls' = [calls EXCEPT ![t] = [@ EXCEPT !.pos = @ + 1]]
                /\ depths' = [depths EXCEPT ![DepthsOwner(t)] = (b :> d) @@ @]
    /\ UNCHANGED <<paths, status, result>>
    /\ UNCHANGED worldVars

\* lines 839-852: one iteration of the second loop, or its exit; reading
\* depths[basename] inserts the default 0 for a base name not yet in it
NameStep(t) ==
    /\ calls[t].pc = "names"
    /\ LET f == calls[t]
           b == f.basenames[f.pos]
           dict == depths[DepthsOwner(t)]
       IN  IF f.pos > Len(f.args)
           THEN /\ calls' = [calls EXCEPT ![t] = [@ EXCEPT !.pc = "return"]]
                /\ UNCHANGED depths
           ELSE /\ calls' = [calls EXCEPT ![t] =
                        [@ EXCEPT !.names = Append(@, SnippetName(f.args[f.pos], b, DictGet(dict, b))),
                                  !.pos = @ + 1]]
                /\ depths' = [depths EXCEPT ![DepthsOwner(t)] = (b :> DictGet(dict, b)) @@ @]
    /\ UNCHANGED <<paths, status, result>>
    /\ UNCHANGED worldVars

\* line 853: return names
Return(t) ==
    /\ calls[t].pc = "return"
    /\ calls' = [calls EXCEPT ![t] = [@ EXCEPT !.ret = calls[t].names, !.pc = "done"]]
    /\ UNCHANGED <<paths, status, result, depths>>
    /\ UNCHANGED worldVars

NextConc ==
    \E t \in Threads :
        \/ Start(t)
        \/ Collect(t)
        \/ DepthStep(t)
        \/ NameStep(t)
        \/ Return(t)

SpecConc == InitConc /\ [][NextConc]_vars

(* ------------------- vocabulary of the properties ---------------------- *)
Returned == status = "returned"

IsAbsolute(p) == Len(p) > 0 /\ p[1] = Sep

AllAbsolute(ps) == \A i \in 1..Len(ps) : IsAbsolute(ps[i])

\* s is a trailing substring of p
IsSuffix(s, p) == Len(s) <= Len(p) /\ SubSeq(p, Len(p) - Len(s) + 1, Len(p)) = s

\* the final separator-split segment of a path, read off its segment list
FinalSegment(p) == LET segs == Split(p) IN segs[Len(segs)]

\* the last n separator-split segments of a path (all of them if it has fewer)
LastSegs(p, n) == LET segs == Split(p) IN SubSeq(segs, Max(Len(segs) - n, 0) + 1, Len(segs))

\* the positions of the argument list that share position i's final segment
GroupOf(ps, i) == {j \in 1..Len(ps) : FinalSegment(ps[j]) = FinalSegment(ps[i])}

\* the depth the returned call resolved for position i's base name
DepthAt(ps, i) == DictGet(depths[1], Basename(ps[i]))

(* C1: for pairwise-distinct absolute paths, the returned strings are      *)
(* pairwise distinct.                                                      *)
C1_OutputsPairwiseDistinct ==
    (Returned /\ AllAbsolute(paths) /\ Distinct(paths))
        => \A i, j \in 1..Len(result) : i # j => result[i] # result[j]

\* a returned call on absolute paths where three paths share a base name and
\* the group was resolved two levels up
C1_Witness ==
    /\ Returned /\ AllAbsolute(paths) /\ Len(paths) >= 3
    /\ \E i \in 1..Len(paths) :
         /\ Cardinality(GroupOf(paths, i)) >= 3
         /\ DepthAt(paths, i) >= 2
         /\ result[i] # paths[i]

(* C2: the depth computed for a duplicate group is the minimum depth d     *)
(* such that the last d+1 segments of the group's paths are pairwise       *)
(* distinct; sibling sub-groups that collide at the same level do not      *)
(* push d beyond what the deepest of them needs.                           *)
GroupPaths(ps, i) == SelectSeq(ps, LAMBDA p : FinalSegment(p) = FinalSegment(ps[i]))

SegsDistinctAt(ps, d) ==
    \A i, j \in 1..Len(ps) : i # j => LastSegs(ps[i], d + 1) # LastSegs(ps[j], d + 1)

MinDepth(ps) ==
    LET most == CHOOSE n \in {Len(Split(ps[i])) : i \in 1..Len(ps)} :
                    \A i \in 1..Len(ps) : Len(Split(ps[i])) <= n
    IN  CHOOSE d \in 0..most :
            /\ SegsDistinctAt(ps, d)
            /\ \A e \in 0..(d - 1) : ~SegsDistinctAt(ps, e)

C2_DepthIsMinimum ==
    Returned =>
        \A i \in 1..Len(paths) :
            Cardinality(GroupOf(paths, i)) > 1
                => DepthAt(paths, i) = MinDepth(GroupPaths(paths, i))

(* C3: the call is total on non-empty pairwise-distinct paths, absolute or *)
(* relative: it returns a list and never raises.                           *)
C3_CallNeverRaises ==
    (Distinct(paths) /\ \A i \in 1..Len(paths) : Len(paths[i]) > 0)
        => status # "raised"

(* C4: the output has the input's length, and output[i] is a trailing      *)
(* substring of paths[i] that ends with the base name of paths[i].         *)
C4_SameLengthSuffixes ==
    Returned =>
        /\ Len(result) = Len(paths)
        /\ \A i \in 1..Len(paths) :
             /\ IsSuffix(result[i], paths[i])
             /\ IsSuffix(FinalSegment(paths[i]), result[i])

\* a returned call of three paths whose outputs are a bare base name, a
\* shortened path that starts with a separator cut out of a relative path,
\* and the last two segments of an absolute path
C4_Witness ==
    /\ Returned /\ Len(paths) = 3
    /\ \E i, j, k \in 1..Len(paths) :
         /\ result[i] = FinalSegment(paths[i]) /\ result[i] # paths[i]
         /\ ~IsAbsolute(paths[j]) /\ IsAbsolute(result[j]) /\ result[j] # paths[j]
         /\ IsAbsolute(paths[k]) /\ ~IsAbsolute(result[k]) /\ result[k] # FinalSegment(paths[k])

(* C5: when the base names are pairwise distinct, the call returns exactly *)
(* the base names in input order, whatever the directories are.            *)
C5_DistinctBasenamesReturned ==
    (status # "called" /\ Distinct([i \in 1..Len(paths) |-> FinalSegment(paths[i])]))
        => /\ Returned
           /\ result = [i \in 1..Len(paths) |-> FinalSegment(paths[i])]

\* two paths of different depth with different base names, returned bare
C5_Witness ==
    /\ Returned /\ Len(paths) = 2
    /\ FinalSegment(paths[1]) # FinalSegment(paths[2])
    /\ Len(Split(paths[1])) = 4 /\ Len(Split(paths[2])) = 5
    /\ result = <<FinalSegment(paths[1]), FinalSegment(paths[2])>>

(* C6: the output for a path depends only on the paths that share its base *)
(* name: it is what the call returns for that path when given only those   *)
(* paths; a path whose base name occurs once is output as its base name.   *)
C6_GroupIndependence ==
    Returned =>
        \A i \in 1..Len(paths) :
            LET group == GroupOf(paths, i)
                alone == MakePathEndSnippetsUnique(GroupPaths(paths, i))
            IN  (\A j \in group : i <= j) =>
                    /\ ~alone.raised
                    /\ \A j \in group :
                         result[j] = alone.names[Cardinality({k \in group : k <= j})]
                    /\ group = {i} => result[i] = FinalSegment(paths[i])

\* two duplicate groups resolved to different depths in one call
C6_Witness ==
    /\ Returned
    /\ \E i, j \in 1..Len(paths) :
         /\ Cardinality(GroupOf(paths, i)) = 2 /\ Cardinality(GroupOf(paths, j)) = 2
         /\ DepthAt(paths, i) = 1 /\ DepthAt(paths, j) > 1
         /\ result[i] # paths[i]

(* C7: in a duplicate group of depth d, a path whose start index (number   *)
(* of split segments - d - 1) is 0 or negative is output as the full       *)
(* original path; members with more segments get their last d+1 segments.  *)
StartIndex(ps, i) == Len(Split(ps[i])) - DepthAt(ps, i) - 1

C7_FullPathFallback ==
    Returned =>
        \A i \in 1..Len(paths) :
            LET d == DepthAt(paths, i)
                start == Len(Split(paths[i])) - d - 1
                tail == Join(LastSegs(paths[i], d + 1))
            IN  d > 0 =>
                    /\ start <= 0 => result[i] = paths[i]
                    /\ start >= 1 => result[i] \in {tail, <<Sep>> \o tail}

\* one member of a group is consumed beyond its start, another is shortened
C7_Witness ==
    /\ Returned
    /\ \E i, j \in 1..Len(paths) :
         /\ j \in GroupOf(paths, i)
         /\ StartIndex(paths, i) < 0 /\ result[i] = paths[i]
         /\ StartIndex(paths, j) > 1 /\ result[j] # paths[j]

(* C8: the doctest call s4 = (p0, p1, p2, p3, p6).                         *)
S4 == <<P0, P1, P2, P3, P6>>

\* as claimed: the added path p6 is output as its full string
C8_DoctestS4AsClaimed ==
    (paths = S4 /\ status # "called")
        => /\ Returned
           /\ result = <<P0, P1, P2, videos, P6>>

\* as the code returns it: p0, p1, p2 in full, 'videos', and p6 as its last
\* four segments 'drive1/home/damon/photos'
C8_DoctestS4 ==
    (paths = S4 /\ status # "called")
        => /\ Returned
           /\ result = <<P0, P1, P2, videos, Join(<<drive1, home, damon, photos>>)>>

C8_Witness == paths = S4 /\ Returned /\ Len(result) = 5

(* C9: if the paths that share a base name have pairwise-distinct parent   *)
(* directory names, the group's depth is 1 and every member that is an     *)
(* absolute path of at least three components is output as                 *)
(* '<parent directory name>/<base name>'.                                  *)
ParentName(p) == LET segs == Split(p) IN IF Len(segs) >= 2 THEN segs[Len(segs) - 1] ELSE <<>>

DistinctParents(ps, i) ==
    \A j, k \in GroupOf(ps, i) : j # k => ParentName(ps[j]) # ParentName(ps[k])

C9_DistinctParentsDepthOne ==
    Returned =>
        \A i \in 1..Len(paths) :
            (Cardinality(GroupOf(paths, i)) > 1 /\ DistinctParents(paths, i))
                => /\ DepthAt(paths, i) = 1
                   /\ (IsAbsolute(paths[i]) /\ Len(Split(paths[i])) >= 4)
                        => result[i] = ParentName(paths[i]) \o <<Sep>> \o FinalSegment(paths[i])

\* a group of three with distinct parents, one member cut to two segments
\* and a relative member that is not
C9_Witness ==
    /\ Returned
    /\ \E i, j \in 1..Len(paths) :
         /\ Cardinality(GroupOf(paths, i)) = 3 /\ DistinctParents(paths, i)
         /\ j \in GroupOf(paths, i)
         /\ IsAbsolute(paths[i]) /\ Len(Split(paths[i])) >= 4
         /\ result[i] = ParentName(paths[i]) \o <<Sep>> \o FinalSegment(paths[i])
         /\ ~IsAbsolute(paths[j])
         /\ result[j] # ParentName(paths[j]) \o <<Sep>> \o FinalSegment(paths[j])

(* C10: concurrent calls do not interfere: under every interleaving, each  *)
(* call returns the list it returns when run alone.                        *)
C10_NoInterference ==
    \A t \in DOMAIN calls :
        LET alone == MakePathEndSnippetsUnique(calls[t].args)
        IN  /\ calls[t].pc = "done" => (~alone.raised /\ calls[t].ret = alone.names)
            /\ calls[t].pc = "raised" => alone.raised

\* two calls inside their second loop at once, which resolved different
\* depths for the same base name
C10_Witness ==
    /\ DOMAIN calls = Threads
    /\ calls[1].pc = "names" /\ calls[1].pos = 2
    /\ calls[2].pc = "names" /\ calls[2].pos = 2
    /\ \E b \in DOMAIN depths[1] \cap DOMAIN depths[2] :
         depths[1][b] # depths[2][b] /\ depths[1][b] > 0 /\ depths[2][b] > 0
    /\ calls[1].names # calls[2].names

(* ------------------------- available_cpu_count ------------------------- *)
MaxMaskDigits == 2
MaxCpus == 2

\* Python's None where a count is expected
None == -1

Min(a, b) == IF a <= b THEN a ELSE b

\* the digits int(s, 16) accepts in the file's lower-case masks
HexChars == <<"0", "1", "2", "3", "4", "5", "6", "7", "8", "9", "a", "b", "c", "d", "e", "f">>

HexDigit(c) == (CHOOSE k \in 1..16 : HexChars[k] = c) - 1

\* s.replace(ch, "")
Remove(s, ch) == SelectSeq(s, LAMBDA x : x # ch)

\* int(s, 16)
RECURSIVE Int16(_)
Int16(s) ==
    IF s = <<>> THEN 0
    ELSE Int16(SubSeq(s, 1, Len(s) - 1)) * 16 + HexDigit(s[Len(s)])

\* bin(n) for n >= 0: "0b" and the binary digits
RECURSIVE BinDigits(_)
BinDigits(n) ==
    LET d == IF n % 2 = 1 THEN "1" ELSE "0"
    IN  IF n < 2 THEN <<d>> ELSE BinDigits(n \div 2) \o <<d>>

Bin(n) == <<"0", "b">> \o BinDigits(n)

\* s.count(ch)
Count(s, ch) == Len(SelectSeq(s, LAMBDA x : x = ch))

\* the function: in.status is what reading /proc/self/status gave (readable
\* or IOError; whether the Cpus_allowed line matched; its captured mask)
AvailableCpuCount(in) ==
    LET matched == in.linux /\ in.status.readable /\ in.status.matched
        available == IF matched
                     THEN Count(Bin(Int16(Remove(in.status.mask, ","))), "1")
                     ELSE None
        c == in.os_cpu_count
        p == in.psutil_cpu_count
    IN  IF matched /\ available > 0 /\ ~in.physical_only THEN available
        ELSE IF in.physical_only /\ in.physical # None
        THEN IF available # None THEN Min(available, in.physical) ELSE in.physical
        ELSE IF c # None THEN Max(c, 1)
        ELSE IF p # None THEN Max(p, 1)
        ELSE 1

\* masks as the kernel prints them: hex digits, in comma-separated groups
MaskDigits == {"0", "1", "f"}

Masks ==
    LET plain == UNION {[1..n -> MaskDigits] : n \in 1..MaxMaskDigits}
    IN  plain \cup {SubSeq(m, 1, k) \o <<",">> \o SubSeq(m, k + 1, Len(m)) :
                        m \in {x \in plain : Len(x) >= 2}, k \in 1..(MaxMaskDigits - 1)}

\* what cpu_count of os and of psutil return: None or a count
Counts == {None} \cup 1..MaxCpus

StatusReadings ==
    {[readable |-> FALSE, matched |-> FALSE, mask |-> <<>>],
     [readable |-> TRUE, matched |-> FALSE, mask |-> <<>>]}
        \cup {[readable |-> TRUE, matched |-> TRUE, mask |-> m] : m \in Masks}

CpuInputs ==
    [physical_only : BOOLEAN, linux : BOOLEAN, status : StatusReadings,
     physical : Counts, os_cpu_count : Counts, psutil_cpu_count : Counts]

InitCpu ==
    /\ input \in CpuInputs
    /\ status = "called"
    /\ result = <<>>
    /\ paths = <<>> /\ calls = <<>> /\ depths = <<>>
    /\ fs = <<>> /\ log = <<>> /\ have_logged_os_release = FALSE

\* available_cpu_count(physical_only) runs to its return
CallAvailableCpuCount ==
    /\ status = "called"
    /\ status' = "returned"
    /\ result' = AvailableCpuCount(input)
    /\ UNCHANGED <<paths, calls, depths, input, fs, log, have_logged_os_release>>

NextCpu == CallAvailableCpuCount

SpecCpu == InitCpu /\ [][NextCpu]_vars

(* C11: available_cpu_count returns a value >= 1 for every combination of  *)
(* physical_only, the Cpus_allowed mask read (a mask with no bit set       *)
(* included) and the results, a count or None, of the two cpu_count calls. *)
C11_CountAtLeastOne == Returned => result >= 1

(* -------------------- remove_last_char_from_list_str ------------------- *)
MaxItems == 3
MaxStrLen == 2

\* s[:-1]
DropLast(s) == IF Len(s) = 0 THEN <<>> ELSE SubSeq(s, 1, Len(s) - 1)

\* the list the caller's name is bound to after the call: line 755 assigns
\* into the list that was passed, lines 753 and 757 rebind the local name
ItemsInPlace(items) ==
    IF items # <<>> /\ items[Len(items)] # <<>>
    THEN [items EXCEPT ![Len(items)] = DropLast(@)]
    ELSE items

\* the list returned
RemoveLastCharFromListStr(items) ==
    IF items # <<>>
    THEN IF items[Len(items)] = <<>>
         THEN DropLast(items)
         ELSE LET shortened == ItemsInPlace(items)
              IN  IF shortened # <<>> /\ shortened[Len(shortened)] = <<>>
                  THEN DropLast(shortened)
                  ELSE shortened
    ELSE items

\* strings of at most MaxStrLen characters, the empty string among them
Strs == UNION {[1..n -> {"a", " "}] : n \in 0..MaxStrLen}

ListInputs == UNION {[1..n -> Strs] : n \in 0..MaxItems}

InitList ==
    /\ input \in ListInputs
    /\ status = "called"
    /\ result = <<>>
    /\ paths = <<>> /\ calls = <<>> /\ depths = <<>>
    /\ fs = <<>> /\ log = <<>> /\ have_logged_os_release = FALSE

\* remove_last_char_from_list_str(items) runs to its return
CallRemoveLastChar ==
    /\ status = "called"
    /\ status' = "returned"
    /\ result' = RemoveLastCharFromListStr(input)
    /\ input' = ItemsInPlace(input)
    /\ UNCHANGED <<paths, calls, depths, fs, log, have_logged_os_release>>

NextList == CallRemoveLastChar

SpecList == InitList /\ [][NextList]_vars

(* C12: for every list of strings, lists with empty strings before the    *)
(* last position included, the list returned is either empty or has a     *)
(* non-empty last item.                                                    *)
C12_LastItemNotEmpty ==
    Returned => (result = <<>> \/ result[Len(result)] # <<>>)

(* ---------------------------- create_temp_dir -------------------------- *)
\* range(10): the number of names tried
Attempts == 10

\* str(n) for n >= 0, as "{}".format(n) writes it
DecChars == <<"0", "1", "2", "3", "4", "5", "6", "7", "8", "9">>

RECURSIVE Str(_)
Str(n) == IF n < 10 THEN <<DecChars[n + 1]>> ELSE Str(n \div 10) \o <<DecChars[(n % 10) + 1]>>

\* os.path.join(a, b)
PathJoin(a, b) ==
    IF Len(b) > 0 /\ b[1] = Sep THEN b
    ELSE IF a = <<>> \/ a[Len(a)] = Sep THEN a \o b
    ELSE a \o <<Sep>> \o b

\* os.path.exists, os.path.isdir
Exists(f, p) == p \in DOMAIN f
IsDir(f, p) == p \in DOMAIN f /\ f[p].kind = "dir"

\* os.path.isfile
IsFile(f, p) == p \in DOMAIN f /\ f[p].kind = "file"

\* a directory as os.mkdir leaves it, a file with its content
DirEntry == [kind |-> "dir", content |-> <<>>]
FileEntry(c) == [kind |-> "file", content |-> c]

\* the file system with one more entry
WithEntry(f, p, e) == [q \in DOMAIN f \cup {p} |-> IF q = p THEN e ELSE f[q]]

\* tempfile.gettempdir()
TempDir == <<Sep, "t">>

\* the folder passed by the caller, when one is
GivenDir == <<Sep, "g">>

TempDirName == <<"n">>

\* lines 377-380: the path of the i-th attempt
CandidatePath(folder, name, i) ==
    IF i = 0 THEN PathJoin(folder, name)
    ELSE PathJoin(folder, name \o <<"_">> \o Str(i))

\* lines 374-375: the folder the directory is made in (input.folder is the
\* empty sequence for None, a one-item sequence for a given folder)
Folder(in) == IF in.folder = <<>> THEN TempDir ELSE in.folder[1]

\* the file systems the call can find: its folder, and any of the ten names
\* already taken, the first one by a directory or by a file
TempDirFileSystems(folder) ==
    {[p \in {folder} \cup {CandidatePath(folder, TempDirName, i) : i \in taken} |->
        IF p \in {CandidatePath(folder, TempDirName, i) : i \in files}
        THEN FileEntry(<<>>) ELSE DirEntry] :
            taken \in SUBSET (0..(Attempts - 1)), files \in {{}, {0}}}

InitTempDir ==
    /\ input \in [folder : {<<>>, <<GivenDir>>}, temp_dir_name : {TempDirName}]
    /\ fs \in TempDirFileSystems(Folder(input))
    /\ status = "called"
    /\ result = <<>>
    /\ calls = <<[i |-> 0, path |-> <<>>, created |-> {}, pc |-> "loop"]>>
    /\ log = <<>>
    /\ paths = <<>> /\ depths = <<>> /\ have_logged_os_release = FALSE

\* lines 376-386: one iteration of the loop, or its end after the tenth
Mkdir ==
    /\ status = "called" /\ input # <<>> /\ calls[1].pc = "loop"
    /\ LET f == calls[1]
           path == CandidatePath(Folder(input), input.temp_dir_name, f.i)
       IN  IF f.i >= Attempts
           THEN /\ calls' = <<[f EXCEPT !.pc = "return"]>>
                /\ UNCHANGED <<fs, log>>
           ELSE IF Exists(fs, path)
           THEN /\ calls' = <<[f EXCEPT !.i = @ + 1, !.path = path]>>
                /\ log' = Append(log, <<"warning", path>>)
                /\ UNCHANGED fs
           ELSE /\ calls' = <<[f EXCEPT !.path = path, !.created = @ \cup {path}, !.pc = "return"]>>
                /\ fs' = WithEntry(fs, path, DirEntry)
                /\ UNCHANGED log
    /\ UNCHANGED <<paths, status, result, depths, input, have_logged_os_release>>

\* line 387: return path
ReturnPath ==
    /\ status = "called" /\ input # <<>> /\ calls[1].pc = "return"
    /\ status' = "returned"
    /\ result' = calls[1].path
    /\ UNCHANGED <<paths, calls, depths, input, fs, log, have_logged_os_release>>

NextTempDir == Mkdir \/ ReturnPath

SpecTempDir == InitTempDir /\ [][NextTempDir]_vars

(* C13: with temp_dir_name given, create_temp_dir returns the path of a    *)
(* directory that this very call created, the first of folder/name,        *)
(* folder/name_1, ..., folder/name_9 that did not already exist; also when *)
(* all ten names exist before the call.                                    *)
ExistedBefore(p) == Exists(fs, p) /\ p \notin calls[1].created

C13_ReturnsDirectoryItCreated ==
    Returned =>
        /\ result \in calls[1].created
        /\ IsDir(fs, result)
        /\ \E i \in 0..(Attempts - 1) :
             /\ result = CandidatePath(Folder(input), input.temp_dir_name, i)
             /\ \A j \in 0..(i - 1) :
                  ExistedBefore(CandidatePath(Folder(input), input.temp_dir_name, j))

(* ------------------------- create_bugreport_tar ------------------------ *)
\* os.path.split(path): the head without its trailing separator, and the tail
SplitHead(p) == IF LastSep(p) <= 1 THEN SubSeq(p, 1, LastSep(p)) ELSE SubSeq(p, 1, LastSep(p) - 1)
SplitTail(p) == SubSeq(p, LastSep(p) + 1, Len(p))

\* the log file that is stored under another name, and that name
LogName ==
    <<"r", "a", "p", "i", "d", "-", "p", "h", "o", "t", "o", "-", "d", "o", "w", "n", "l",
    "o", "a", "d", "e", "r", ".", "l", "o", "g">>
RotatedLogName ==
    <<"r", "a", "p", "i", "d", "-", "p", "h", "o", "t", "o", "-", "d", "o", "w", "n", "l",
    "o", "a", "d", "e", "r", ".", "0", ".", "l", "o", "g">>

\* another file of the log directory
OtherLog == <<"o">>

\* the argument full_tar_name
TarName == <<Sep, "h", Sep, "r">>

\* the log directory and the configuration file of the arguments, and the
\* ones under QStandardPaths taken when the arguments are empty
GivenLogPath == <<Sep, "l">>
DefaultLogPath == <<Sep, "k", Sep, "l">>
GivenConfigFile == <<Sep, "c", Sep, "f">>
DefaultConfigDir == <<Sep, "q">>
DefaultConfigFile == <<"R">>

\* lines 948-953
LogPath(in) == IF in.log_path = <<>> THEN DefaultLogPath ELSE in.log_path

\* lines 955-962
ConfigDir(in) ==
    IF in.full_config_file = <<>> THEN DefaultConfigDir ELSE SplitHead(in.full_config_file)
ConfigFile(in) ==
    IF in.full_config_file = <<>> THEN DefaultConfigFile ELSE SplitTail(in.full_config_file)

\* glob("*") in directory d: the names of its entries
Glob(f, d) == {SplitTail(p) : p \in {q \in DOMAIN f : q # d /\ SplitHead(q) = d}}

\* the name a log file is stored under (lines 973-975)
ArcName(l) == IF l = LogName THEN RotatedLogName ELSE l

\* the orders glob can list a set of names in
Orders(S) == {o \in [1..Cardinality(S) -> S] : \A i, j \in 1..Cardinality(S) : i # j => o[i] # o[j]}

\* the members added before the first one whose t.add raises
RECURSIVE AddedUntilFault(_, _)
AddedUntilFault(order, faulty) ==
    IF order = <<>> \/ Head(order) \in faulty THEN <<>>
    ELSE <<ArcName(Head(order))>> \o AddedUntilFault(Tail(order), faulty)


\* the directory the process is in at the call
CurrDir == <<Sep, "h">>

\* what can be at full_tar_name, in the log directory and in the
\* configuration directory when the call is made
TarFileSystems(in) ==
    LET tar == in.full_tar_name
        logdir == LogPath(in)
        cfgdir == ConfigDir(in)
        cfg == PathJoin(cfgdir, ConfigFile(in))
        dirs(D) == [p \in D |-> DirEntry]
        files(F) == [p \in F |-> FileEntry(<<"old">>)]
    IN  {dirs({CurrDir} \cup d1 \cup d2 \cup d3) @@ files(f1 \cup f2 \cup f3) :
            d1 \in {{}, {tar}},
            f1 \in {{}, {tar}},
            d2 \in {{}, {logdir}},
            f2 \in SUBSET {PathJoin(logdir, LogName), PathJoin(logdir, OtherLog)},
            d3 \in {{}, {cfgdir}},
            f3 \in {{}, {cfg}}}

InitTar ==
    /\ input \in [full_tar_name : {TarName}, log_path : {<<>>, GivenLogPath},
                  full_config_file : {<<>>, GivenConfigFile},
                  faulty : SUBSET {LogName, OtherLog}]
    /\ fs \in TarFileSystems(input)
    /\ IsDir(fs, LogPath(input)) \/ Glob(fs, LogPath(input)) = {}
    /\ IsDir(fs, ConfigDir(input)) \/ Glob(fs, ConfigDir(input)) = {}
    /\ input.faulty \subseteq Glob(fs, LogPath(input))
    /\ status = "called"
    /\ result = <<>>
    /\ calls = <<[pc |-> "start", cwd |-> CurrDir, created |-> FALSE, t |-> "none",
                  before |-> fs]>>
    /\ log = <<>>
    /\ paths = <<>> /\ depths = <<>> /\ have_logged_os_release = FALSE

\* lines 944-946: nothing is done when the file exists
CheckExisting ==
    /\ status = "called" /\ calls[1].pc = "start"
    /\ IF IsFile(fs, input.full_tar_name)
       THEN /\ status' = "returned"
            /\ result' = FALSE
            /\ log' = Append(log, <<"error", "exists">>)
            /\ UNCHANGED calls
       ELSE /\ calls' = <<[calls[1] EXCEPT !.pc = "open"]>>
            /\ UNCHANGED <<status, result, log>>
    /\ UNCHANGED <<paths, depths, input, fs, have_logged_os_release>>

\* lines 964-968: tarfile.open(full_tar_name, "x:gz") creates the file, or
\* raises FileExistsError when something is at that name
OpenTar ==
    /\ status = "called" /\ calls[1].pc = "open"
    /\ IF Exists(fs, input.full_tar_name)
       THEN /\ calls' = <<[calls[1] EXCEPT !.pc = "except"]>>
            /\ UNCHANGED fs
       ELSE /\ calls' = <<[calls[1] EXCEPT !.pc = "logs", !.t = "open"]>>
            /\ fs' = WithEntry(fs, input.full_tar_name, FileEntry(<<>>))
    /\ UNCHANGED <<paths, status, result, depths, input, log, have_logged_os_release>>

\* lines 969-976: the log files are added, in the order glob lists them, up
\* to the first that cannot be added; the with statement closes the tar file
AddLogs ==
    /\ status = "called" /\ calls[1].pc = "logs"
    /\ IF ~IsDir(fs, LogPath(input))
       THEN /\ calls' = <<[calls[1] EXCEPT !.pc = "except", !.t = "closed"]>>
            /\ UNCHANGED fs
       ELSE \E order \in Orders(Glob(fs, LogPath(input))) :
              LET added == AddedUntilFault(order, input.faulty)
              IN  /\ fs' = [fs EXCEPT ![input.full_tar_name] = FileEntry(@.content \o added)]
                  /\ calls' = <<[calls[1] EXCEPT
                        !.cwd = LogPath(input),
                        !.t = IF Len(added) < Len(order) THEN "closed" ELSE "open",
                        !.pc = IF Len(added) < Len(order) THEN "except" ELSE "config"]>>
    /\ UNCHANGED <<paths, status, result, depths, input, log, have_logged_os_release>>

\* lines 977-978 and 986-987: the configuration file is added and the tar
\* file closed
AddConfig ==
    /\ status = "called" /\ calls[1].pc = "config"
    /\ LET cfg == PathJoin(ConfigDir(input), ConfigFile(input))
       IN  IF ~IsDir(fs, ConfigDir(input))
           THEN /\ calls' = <<[calls[1] EXCEPT !.pc = "except", !.t = "closed"]>>
                /\ UNCHANGED fs
           ELSE IF ~IsFile(fs, cfg)
           THEN /\ calls' = <<[calls[1] EXCEPT !.pc = "except", !.t = "closed",
                                               !.cwd = ConfigDir(input)]>>
                /\ UNCHANGED fs
           ELSE /\ calls' = <<[calls[1] EXCEPT !.pc = "finish", !.t = "closed",
                                               !.cwd = ConfigDir(input), !.created = TRUE]>>
                /\ fs' = [fs EXCEPT ![input.full_tar_name] =
                                FileEntry(@.content \o <<ConfigFile(input)>>)]
    /\ UNCHANGED <<paths, status, result, depths, input, log, have_logged_os_release>>

\* lines 979-985: the error is logged, created stays False
Except ==
    /\ status = "called" /\ calls[1].pc = "except"
    /\ calls' = <<[calls[1] EXCEPT !.pc = "finish"]>>
    /\ log' = Append(log, <<"error", "bug report tar file">>)
    /\ UNCHANGED <<paths, status, result, depths, input, fs, have_logged_os_release>>

\* lines 989-994: back to the directory of the call, return created
Finish ==
    /\ status = "called" /\ calls[1].pc = "finish"
    /\ calls' = <<[calls[1] EXCEPT !.cwd = CurrDir, !.pc = "done"]>>
    /\ status' = "returned"
    /\ result' = calls[1].created
    /\ UNCHANGED <<paths, depths, input, fs, log, have_logged_os_release>>

NextTar == CheckExisting \/ OpenTar \/ AddLogs \/ AddConfig \/ Except \/ Finish

SpecTar == InitTar /\ [][NextTar]_vars

(* C14: create_bugreport_tar returns True exactly when the call created    *)
(* the tar file at full_tar_name; whenever it returns False the call has   *)
(* left no new file at full_tar_name and has not modified a file that was  *)
(* there.                                                                  *)
TarCreatedByCall ==
    /\ ~Exists(calls[1].before, input.full_tar_name)
    /\ IsFile(fs, input.full_tar_name)

TarUntouched ==
    IF Exists(calls[1].before, input.full_tar_name)
    THEN Exists(fs, input.full_tar_name)
            /\ fs[input.full_tar_name] = calls[1].before[input.full_tar_name]
    ELSE ~Exists(fs, input.full_tar_name)

C14_TrueIffTarCreated ==
    Returned =>
        /\ result = TRUE <=> TarCreatedByCall
        /\ result = FALSE => TarUntouched

(* ----------------------------- log_os_release -------------------------- *)
MaxLogCalls == 3
MaxTextLen == 3

OsReleasePath == <<Sep, "e", "t", "c", Sep, "o", "s", "-", "r", "e", "l", "e", "a", "s", "e">>

\* for line in f: the text cut after every newline
RECURSIVE FileLines(_)
FileLines(text) ==
    IF text = <<>> THEN <<>>
    ELSE IF \E i \in 1..Len(text) : text[i] = "\n"
    THEN LET i == CHOOSE k \in 1..Len(text) : text[k] = "\n" /\ \A j \in 1..(k-1) : text[j] # "\n"
         IN  <<SubSeq(text, 1, i)>> \o FileLines(SubSeq(text, i + 1, Len(text)))
    ELSE <<text>>

\* line.rstrip("\n")
RECURSIVE RStripNewline(_)
RStripNewline(line) ==
    IF line # <<>> /\ line[Len(line)] = "\n"
    THEN RStripNewline(SubSeq(line, 1, Len(line) - 1))
    ELSE line

\* the texts /etc/os-release can hold
Texts == UNION {[1..n -> {"a", "\n"}] : n \in 1..MaxTextLen}

InitOsRelease ==
    /\ fs \in {<<>>} \cup {WithEntry(<<>>, OsReleasePath, FileEntry(t)) : t \in Texts}
    /\ have_logged_os_release = FALSE
    /\ log = <<>>
    /\ calls = <<>>
    /\ status = "idle"
    /\ result = <<>>
    /\ paths = <<>> /\ depths = <<>> /\ input = <<>>

\* the file appears between two calls
InstallOsRelease ==
    /\ status = "idle" /\ calls # <<>>
    /\ ~Exists(fs, OsReleasePath)
    /\ \E t \in Texts : fs' = WithEntry(fs, OsReleasePath, FileEntry(t))
    /\ UNCHANGED <<paths, status, result, calls, depths, input, log, have_logged_os_release>>

\* one call of log_os_release(): with the flag unset, the lines are logged
\* up to the end of the file or to the exception that open or the read
\* raises (n lines logged), and the flag is set; calls keeps, per call,
\* whether the file was there, whether it was opened, and what was logged
LogOsRelease ==
    /\ status = "idle" /\ Len(calls) < MaxLogCalls
    /\ LET found == IsFile(fs, OsReleasePath)
           lines == IF found THEN FileLines(fs[OsReleasePath].content) ELSE <<>>
       IN  IF have_logged_os_release
           THEN /\ calls' = Append(calls, [found |-> found, attempted |-> FALSE,
                                           logged |-> <<>>, complete |-> FALSE])
                /\ UNCHANGED <<log, have_logged_os_release>>
           ELSE \E n \in 0..Len(lines) :
                  LET logged == [k \in 1..n |-> RStripNewline(lines[k])]
                  IN  /\ calls' = Append(calls, [found |-> found, attempted |-> TRUE,
                                                 logged |-> logged,
                                                 complete |-> found /\ n = Len(lines)])
                      /\ log' = log \o [k \in 1..n |-> <<"debug", logged[k]>>]
                      /\ have_logged_os_release' = TRUE
    /\ UNCHANGED <<paths, status, result, depths, input, fs>>

NextOsRelease == InstallOsRelease \/ LogOsRelease

SpecOsRelease == InitOsRelease /\ [][NextOsRelease]_vars

(* C15: over any sequence of calls to log_os_release, a call logs the      *)
(* contents of /etc/os-release if and only if no earlier call has already  *)
(* logged them, also after a first call that failed to open or read the    *)
(* file: a call logs them only if none did before, and a call that finds   *)
(* the file when none has logged it yet logs it (unless its own open or    *)
(* read fails).                                                            *)
LoggedBefore(n) == \E m \in 1..(n - 1) : calls[m].complete

C15_LogsIffNotLoggedBefore ==
    \A n \in 1..Len(calls) :
        /\ calls[n].complete => ~LoggedBefore(n)
        /\ (~LoggedBefore(n) /\ calls[n].found)
              => (calls[n].complete \/ (calls[n].attempted /\ ~calls[n].complete))

(* ------------------------ bug_report_full_tar_path --------------------- *)
MaxDays == 2
MaxFiles == 2

\* "{:0w}".format(n) as strftime pads the fields of a date
RECURSIVE ZeroPad(_, _)
ZeroPad(s, w) == IF Len(s) >= w THEN s ELSE ZeroPad(<<"0">> \o s, w)

\* date.strftime("%Y%m%d")
Strftime(date) == ZeroPad(Str(date.y), 4) \o ZeroPad(Str(date.m), 2) \o ZeroPad(Str(date.d), 2)

\* the calendar day after a date
DaysIn(m, y) ==
    IF m \in {4, 6, 9, 11} THEN 30
    ELSE IF m # 2 THEN 31
    ELSE IF y % 4 = 0 /\ (y % 100 # 0 \/ y % 400 = 0) THEN 29 ELSE 28

NextDate(date) ==
    IF date.d < DaysIn(date.m, date.y) THEN [date EXCEPT !.d = @ + 1]
    ELSE IF date.m < 12 THEN [date EXCEPT !.d = 1, !.m = @ + 1]
    ELSE [y |-> date.y + 1, m |-> 1, d |-> 1]

\* the day of the first call
FirstDate == [y |-> 2023, m |-> 12, d |-> 31]

\* os.path.expanduser("~")
Home == <<Sep, "h">>

ReportPrefix == <<"r", "p", "d", "-", "b", "u", "g", "-", "r", "e", "p", "o", "r", "t", "-">>
TarSuffix == <<".", "t", "a", "r", ".", "g", "z">>

\* lines 916-917
Component(date) == PathJoin(Home, ReportPrefix \o Strftime(date))

\* "-{}".format(i) used for i = 0 as well
MutTarPathAlwaysSuffix(component, i) == component \o <<"-">> \o Str(i) \o TarSuffix

\* the name tested at lines 920-922 and returned at line 925
TarPath(component, i) ==
    component \o (IF i = 0 THEN <<>> ELSE <<"-">> \o Str(i)) \o TarSuffix

\* what is in the home directory at the first call: report files of that
\* day under any of the first names, or a directory under the first name
ReportFileSystems ==
    {[p \in {TarPath(Component(FirstDate), i) : i \in S} |->
        IF p \in {TarPath(Component(FirstDate), i) : i \in D} THEN DirEntry
        ELSE FileEntry(<<"old">>)] :
            S \in SUBSET (0..(MaxFiles - 1)), D \in {{}, {0}}}

IdleCaller == [pc |-> "idle", component |-> <<>>, i |-> 0, ret |-> <<>>]

InitReport ==
    /\ fs \in ReportFileSystems
    /\ input = [date |-> FirstDate, day |-> 1]
    /\ calls = [t \in Threads |-> IdleCaller]
    /\ status = "idle"
    /\ result = <<>>
    /\ log = <<>>
    /\ paths = <<>> /\ depths = <<>> /\ have_logged_os_release = FALSE

\* midnight passes
Midnight ==
    /\ input.day < MaxDays
    /\ input' = [date |-> NextDate(input.date), day |-> input.day + 1]
    /\ UNCHANGED <<paths, status, result, calls, depths, fs, log, have_logged_os_release>>

\* lines 916-919: the component of today's names, i = 0
Enter(t) ==
    /\ calls[t].pc = "idle"
    /\ calls' = [calls EXCEPT ![t] =
            [pc |-> "loop", component |-> Component(input.date), i |-> 0, ret |-> <<>>]]
    /\ UNCHANGED <<paths, status, result, depths, input, fs, log, have_logged_os_release>>

\* lines 920-925: one test of the loop; i += 1 when a file has the name,
\* else the name just tested is returned (nothing is read from the file
\* system between the failing test and the return)
Test(t) ==
    /\ calls[t].pc = "loop"
    /\ LET f == calls[t]
       IN  calls' = [calls EXCEPT ![t] =
                IF IsFile(fs, TarPath(f.component, f.i))
                THEN [f EXCEPT !.i = @ + 1]
                ELSE [f EXCEPT !.ret = TarPath(f.component, f.i), !.pc = "returned"]]
    /\ UNCHANGED <<paths, status, result, depths, input, fs, log, have_logged_os_release>>

\* the caller hands the name to create_bugreport_tar, which creates the
\* file unless something has the name already (lines 944-968)
CreateReport(t) ==
    /\ calls[t].pc = "returned"
    /\ IF Exists(fs, calls[t].ret)
       THEN /\ calls' = [calls EXCEPT ![t] = [@ EXCEPT !.pc = "refused"]]
            /\ UNCHANGED fs
       ELSE /\ calls' = [calls EXCEPT ![t] = [@ EXCEPT !.pc = "created"]]
            /\ fs' = WithEntry(fs, calls[t].ret, FileEntry(<<>>))
    /\ UNCHANGED <<paths, status, result, depths, input, log, have_logged_os_release>>

NextReport ==
    \/ Midnight
    \/ \E t \in Threads :
        \/ Enter(t)
        \/ Test(t)
        \/ CreateReport(t)

SpecReport == InitReport /\ [][NextReport]_vars

(* C16: bug_report_full_tar_path returns a path at which no file exists at *)
(* the moment of return, the lowest-numbered candidate (no suffix, then    *)
(* -1, -2, ...) of which that is true: every lower-numbered candidate of   *)
(* the same day exists as a file.  Two callers that interleave before      *)
(* either creates its file can receive the same path.                      *)
\* the n-th candidate of a day, written out: ~/rpd-bug-report-YYYYMMDD[-n].tar.gz
CandidateName(day, n) ==
    Home \o <<Sep>> \o ReportPrefix \o day \o (IF n = 0 THEN <<>> ELSE <<"-">> \o Str(n)) \o TarSuffix

\* the day in a component
DayOf(component) == SubSeq(component, Len(component) - 7, Len(component))

C17_SeparatorAtStartIndexOne ==
    Returned =>
        \A i \in 1..Len(paths) :
            LET d == DepthAt(paths, i)
                start == Len(Split(paths[i])) - d - 1
                tail == Join(LastSegs(paths[i], d + 1))
            IN  (Cardinality(GroupOf(paths, i)) > 1 /\ d > 0) =>
                    /\ start = 1 => result[i] = <<Sep>> \o tail
                    /\ (start = 1 /\ IsAbsolute(paths[i])) => result[i] = paths[i]
                    /\ start > 1 => result[i] = tail

\* one call in which an absolute path with start index 1 comes out in full,
\* a relative path with start index 1 gets the separator in front of its
\* last segments, and a path with a greater start index gets no prefix
C17_Witness ==
    /\ Returned
    /\ \E i, j, k \in 1..Len(paths) :
         /\ Cardinality(GroupOf(paths, i)) > 1 /\ StartIndex(paths, i) = 1
         /\ IsAbsolute(paths[i]) /\ result[i] = paths[i]
         /\ Cardinality(GroupOf(paths, j)) > 1 /\ StartIndex(paths, j) = 1
         /\ ~IsAbsolute(paths[j]) /\ IsAbsolute(result[j]) /\ result[j] # paths[j]
         /\ Cardinality(GroupOf(paths, k)) > 1 /\ StartIndex(paths, k) > 1
         /\ ~IsAbsolute(result[k])

(* --------------------- the function applied to its output -------------- *)
\* make_path_end_snippets_unique(*result): calls keeps the second call's
\* arguments, outcome and depths dict
CallAgain ==
    /\ status = "returned" /\ calls = <<>>
    /\ LET r == MakePathEndSnippetsUnique(result)
       IN  calls' = <<[args |-> result, raised |-> r.raised, ret |-> r.names,
                       depths |-> r.depths]>>
    /\ UNCHANGED <<paths, status, result, depths>>
    /\ UNCHANGED worldVars

NextTwice == Call \/ CallAgain

SpecTwice == Init /\ [][NextTwice]_vars

(* C18: make_path_end_snippets_unique is idempotent on its results: for    *)
(* pairwise-distinct absolute paths, the function applied to its own       *)
(* output list returns that list unchanged, with the same depth resolved   *)
(* for every group.                                                        *)
C18_IdempotentOnResults ==
    (calls # <<>> /\ AllAbsolute(paths) /\ Distinct(paths)) =>
        /\ ~calls[1].raised
        /\ calls[1].args = result
        /\ calls[1].ret = result
        /\ calls[1].depths = depths[1]

\* a second call on an output list that has a full path, a shortened path
\* and a bare base name in it, resolved three levels up again
C18_Witness ==
    /\ calls # <<>> /\ AllAbsolute(paths) /\ Distinct(paths)
    /\ calls[1].ret = result
    /\ \E i, j, k \in 1..Len(paths) :
         /\ result[i] = paths[i]
         /\ result[j] # paths[j] /\ result[j] # FinalSegment(paths[j])
         /\ result[k] = FinalSegment(paths[k])
         /\ DictGet(calls[1].depths, FinalSegment(paths[j])) = 3
====
